---- MODULE Spec2Model ----
(***************************************************************************)
(* Three command-line tools over an S3 client:                             *)
(*   glacier-restore-status.py       the Status Scanner                    *)
(*   glacier-restore.py              the Restore Requester                 *)
(*   glacier-generate-dummy-files.py the Uploader                          *)
(* Each tool is one main thread that fans work out to a ThreadPoolExecutor *)
(* and (Scanner, Requester) folds the futures' results into counters.      *)
(* A string is a sequence of tokens; Python's `sub in s` is a contiguous   *)
(* match of the tokens of sub in s.  The S3 service is the environment:    *)
(* what a call returns or raises is chosen when the call is made.          *)
(* A task of the pool shares no state with the other tasks or with the     *)
(* main thread.  A Requester task and an upload are a step per S3 call:    *)
(* the call is issued, and the other threads run until its answer comes;   *)
(* a Scanner task makes one call and is one step.  --threads only limits   *)
(* how many tasks run at once, and the tasks can finish, and as_completed  *)
(* can yield them, in any order.                                           *)
(***************************************************************************)
EXTENDS Integers, Sequences, FiniteSets, Bags, TLC

VARIABLES
    pc,         \* position of the main thread
    tier,       \* args.tier (Restore Requester)
    listing,    \* the entries the paginator returned (the Requester keeps them as a record)
    objects,    \* the list `objects` of (key, size) built from the listing
    futures,    \* one future per submitted object: pending, or finished with its trace
    collected,  \* indices of the futures whose result the fan-in loop has consumed
    summary,    \* Scanner: the dict `summary`
    status_counts, \* Requester: Counter of statuses
    tier_usage, \* Requester: Counter of tiers
    report,     \* what the final summary printed: <<>> until then
    task,       \* one call of check_and_restore_object: its inputs and its trace
    num_files,  \* Uploader: NUM_FILES
    local_dir,  \* Uploader: [exists, files] of LOCAL_DIR
    filepaths,  \* Uploader: the list built from os.listdir
    uploads,    \* Uploader: per submitted path: pending, or the store call and its outcome
    store_calls \* Uploader: the bag of s3.upload_file calls issued so far

vars == <<pc, tier, listing, objects, futures, collected, summary, status_counts,
          tier_usage, report, task, num_files, local_dir, filepaths, uploads, store_calls>>

scanVars == <<summary>>
reqVars == <<tier, status_counts, tier_usage>>
poolVars == <<listing, objects, futures, collected, report>>
upVars == <<num_files, local_dir, filepaths, uploads, store_calls>>

----------------------------------------------------------------------------
(* Bounds of the model *)

MaxObjects == 2     \* entries in the object listing of a Requester run
MaxScanned == 3     \* entries in the object listing of a Scanner run
MaxTotal == 160     \* Total of a summary whose percent is printed on its own
MaxFiles == 2       \* NUM_FILES of an Uploader run
MaxStray == 1       \* files already in LOCAL_DIR when the Uploader starts

----------------------------------------------------------------------------
(* Strings and Python values *)

NoValue == "None"

\* Python: sub in s
Contains(sub, s) ==
    \E i \in 0..(Len(s) - Len(sub)) : SubSeq(s, i + 1, i + Len(sub)) = sub

Absent == [present |-> FALSE, text |-> <<>>]
Str(s) == [present |-> TRUE, text |-> s]

\* Python truthiness of an optional string: None and "" are falsy
Truthy(v) == v.present /\ v.text # <<>>

RECURSIVE SumSizes(_)
SumSizes(objs) ==
    IF objs = <<>> THEN 0 ELSE Head(objs).size + SumSizes(Tail(objs))

RECURSIVE Flatten(_)
Flatten(pages) ==
    IF pages = <<>> THEN <<>> ELSE Head(pages) \o Flatten(Tail(pages))

----------------------------------------------------------------------------
(* The environment: what list_objects_v2 and head_object can answer *)

Raises == "raises"
Returns == "returns"

Prefix == <<"images/">>
KeyOf(j) == Prefix \o <<ToString(j)>>

ArchivalClasses == {"GLACIER", "DEEP_ARCHIVE", "GLACIER_IR"}
ListedClasses == {NoValue, "STANDARD"} \cup ArchivalClasses
Sizes == {0, 100}

\* the j-th entry of a listing: the prefix marker itself or an object under it;
\* StorageClass = NoValue stands for an entry without that annotation
EntriesAt(j) ==
    [Key : {Prefix, KeyOf(j)}, Size : Sizes, StorageClass : ListedClasses]

RECURSIVE ListingsOfLen(_)
ListingsOfLen(n) ==
    IF n = 0 THEN {<<>>}
    ELSE {Append(l, e) : l \in ListingsOfLen(n - 1), e \in EntriesAt(n)}

\* keys are unique in a bucket
UniqueKeys(l) == \A i, j \in 1..Len(l) : l[i].Key = l[j].Key => i = j

Listings == {l \in UNION {ListingsOfLen(n) : n \in 0..MaxObjects} : UniqueKeys(l)}

\* the Scanner looks only at whether an entry has a StorageClass
ScanEntriesAt(j) ==
    [Key : {Prefix, KeyOf(j)}, Size : Sizes, StorageClass : {NoValue, "GLACIER"}]

RECURSIVE ScanListingsOfLen(_)
ScanListingsOfLen(n) ==
    IF n = 0 THEN {<<>>}
    ELSE {Append(l, e) : l \in ScanListingsOfLen(n - 1), e \in ScanEntriesAt(n)}

ScanListings == {l \in UNION {ScanListingsOfLen(n) : n \in 0..MaxScanned} : UniqueKeys(l)}

\* the pages a listing can arrive in
Paginations(l) == {<<SubSeq(l, 1, c), SubSeq(l, c + 1, Len(l))>> : c \in 0..Len(l)}

RestoreOngoing == <<"ongoing-request=\"true\"">>
RestoreDone == <<"ongoing-request=\"false\"">>
RestoreFields ==
    { Absent,
      Str(<<>>),
      Str(RestoreOngoing),
      Str(RestoreDone \o <<"expiry-date">>),
      Str(<<"expiry-date">>) }

ContentLengths == {100, 200}

\* an answer of s3.head_object
HeadAnswer(cls, restore, n) ==
    [outcome |-> Returns, StorageClass |-> cls, Restore |-> restore, ContentLength |-> n]
HeadRaises ==
    [outcome |-> Raises, StorageClass |-> NoValue, Restore |-> Absent, ContentLength |-> 0]

\* the Scanner reads Restore and ContentLength only
ScannerHeads ==
    {HeadRaises} \cup {HeadAnswer("GLACIER", r, n) : r \in RestoreFields, n \in ContentLengths}

----------------------------------------------------------------------------
(* Futures of the worker pool *)

Pending == [done |-> FALSE, head |-> HeadRaises, calls |-> <<>>, raised |-> FALSE, result |-> <<>>]
Finished(head, calls, raised, result) ==
    [done |-> TRUE, head |-> head, calls |-> calls, raised |-> raised, result |-> result]

Submitted == DOMAIN futures
AllCollected == collected = Submitted

----------------------------------------------------------------------------
(* Status Scanner: glacier-restore-status.py *)

\* variant: the two flags are told apart the wrong way round
check_restore_status_Swapped(key, head) ==
    IF head.outcome = Raises THEN <<key, "Error", 0>>
    ELSE LET restore_field == head.Restore
             size == head.ContentLength
         IN  IF Truthy(restore_field) /\ Contains(RestoreOngoing, restore_field.text)
                 THEN <<key, "Completed", size>>
             ELSE IF Truthy(restore_field) /\ Contains(RestoreDone, restore_field.text)
                 THEN <<key, "In Progress", size>>
             ELSE <<key, "Not Started", size>>

check_restore_status(key, head) ==
    IF head.outcome = Raises THEN <<key, "Error", 0>>
    ELSE LET restore_field == head.Restore
             size == head.ContentLength
         IN  IF Truthy(restore_field) /\ Contains(RestoreDone, restore_field.text)
                 THEN <<key, "Completed", size>>
             ELSE IF Truthy(restore_field) /\ Contains(RestoreOngoing, restore_field.text)
                 THEN <<key, "In Progress", size>>
             ELSE <<key, "Not Started", size>>

\* the listing loop over one page
RECURSIVE ScanPage(_)
ScanPage(contents) ==
    IF contents = <<>> THEN <<>>
    ELSE LET obj == Head(contents)
             key == obj.Key
             size == obj.Size
         IN  IF key = Prefix \/ size = 0 \/ obj.StorageClass = NoValue
                 THEN ScanPage(Tail(contents))
             ELSE <<[key |-> key, size |-> size]>> \o ScanPage(Tail(contents))

RECURSIVE ScanPages(_)
ScanPages(pages) ==
    IF pages = <<>> THEN <<>> ELSE ScanPage(Head(pages)) \o ScanPages(Tail(pages))

EmptySummary ==
    [s \in {"Completed", "In Progress", "Not Started", "Error",
            "Total", "RestoredSize", "TotalSize"} |-> 0]

\* variant: the bytes of every result are added, whatever its status
Accumulate_AllBytes(sum, result) ==
    LET status == result[2]
        restored_bytes == result[3]
    IN  [sum EXCEPT ![status] = @ + 1, !["RestoredSize"] = @ + restored_bytes]

\* variant: a result with status Error is logged but not counted
Accumulate_DropError(sum, result) ==
    LET status == result[2]
        restored_bytes == result[3]
    IN  IF status = "Error" THEN sum
        ELSE IF status = "Completed"
            THEN [sum EXCEPT ![status] = @ + 1, !["RestoredSize"] = @ + restored_bytes]
        ELSE [sum EXCEPT ![status] = @ + 1]

\* lines 60-63: the body of the fan-in loop
Accumulate(sum, result) ==
    LET status == result[2]
        restored_bytes == result[3]
        counted == [sum EXCEPT ![status] = @ + 1]
    IN  IF status = "Completed"
            THEN [counted EXCEPT !["RestoredSize"] = @ + restored_bytes]
        ELSE counted

\* lines 31-55: page through the listing, then set Total and TotalSize
ScanList ==
    /\ pc = "scan_start"
    /\ \E l \in ScanListings : \E pages \in Paginations(l) :
          /\ listing' = Flatten(pages)
          /\ objects' = ScanPages(pages)
    /\ summary' = [summary EXCEPT !["Total"] = Len(objects'),
                                  !["TotalSize"] = SumSizes(objects')]
    /\ pc' = "scan_submit"
    /\ UNCHANGED <<futures, collected, report, task>>
    /\ UNCHANGED reqVars
    /\ UNCHANGED upVars

\* line 58: one future per object; the pages iterator is exhausted by now
ScanSubmit ==
    /\ pc = "scan_submit"
    /\ futures' = [i \in 1..Len(objects) |-> Pending]
    /\ listing' = <<>>
    /\ pc' = "scan_collect"
    /\ UNCHANGED <<objects, collected, report, task, summary>>
    /\ UNCHANGED reqVars
    /\ UNCHANGED upVars

\* a pool worker runs check_restore_status for object i
ScanTask(i) ==
    /\ pc = "scan_collect"
    /\ i \in Submitted
    /\ ~futures[i].done
    /\ \E head \in ScannerHeads :
          futures' = [futures EXCEPT ![i] =
              Finished(head, <<>>, FALSE, check_restore_status(objects[i].key, head))]
    /\ UNCHANGED <<pc, listing, objects, collected, report, task, summary>>
    /\ UNCHANGED reqVars
    /\ UNCHANGED upVars

\* lines 59-64: one iteration of the as_completed loop
ScanCollect(i) ==
    /\ pc = "scan_collect"
    /\ i \in Submitted \ collected
    /\ futures[i].done
    /\ summary' = Accumulate(summary, futures[i].result)
    /\ collected' = collected \cup {i}
    /\ UNCHANGED <<pc, listing, objects, futures, report, task>>
    /\ UNCHANGED reqVars
    /\ UNCHANGED upVars

\* Python floats (IEEE 754 binary64, round to nearest, ties to even). A float
\* x >= 0 is [sig, exp] and stands for sig * 2^exp; sig is a natural number
\* below 2^53 written in limbs of LimbBits bits, most significant limb first.
Precision == 53
LimbBits == 18
Limb == 2 ^ LimbBits

\* the number of bits of a natural number below Limb
Bits(n) == CHOOSE k \in 0..LimbBits : n < 2 ^ k /\ (k = 0 \/ n >= 2 ^ (k - 1))

BigBits(limbs) ==
    LET nz == {i \in DOMAIN limbs : limbs[i] # 0}
    IN  IF nz = {} THEN 0
        ELSE LET first == CHOOSE i \in nz : \A j \in nz : i <= j
             IN  LimbBits * (Len(limbs) - first) + Bits(limbs[first])

RECURSIVE BigValue(_)
BigValue(limbs) ==
    IF limbs = <<>> THEN 0
    ELSE Limb * BigValue(SubSeq(limbs, 1, Len(limbs) - 1)) + limbs[Len(limbs)]

\* limbs * n + carry for a small n, one limb longer
RECURSIVE BigTimes(_, _, _)
BigTimes(limbs, n, carry) ==
    IF limbs = <<>> THEN <<carry>>
    ELSE LET v == limbs[Len(limbs)] * n + carry
         IN  Append(BigTimes(SubSeq(limbs, 1, Len(limbs) - 1), n, v \div Limb), v % Limb)

\* limbs \div 2^g, and whether a bit that is 1 was dropped
BigShift(limbs, g) ==
    LET drop == g \div LimbBits
        b == g % LimbBits
        n == IF drop >= Len(limbs) THEN 0 ELSE Len(limbs) - drop
        kept == SubSeq(limbs, 1, n)
        lost == SubSeq(limbs, n + 1, Len(limbs))
    IN  [limbs |-> [i \in 1..n |->
                       (IF i = 1 THEN 0 ELSE (kept[i - 1] % 2 ^ b) * 2 ^ (LimbBits - b))
                       + kept[i] \div 2 ^ b],
         sticky |-> \/ \E i \in DOMAIN lost : lost[i] # 0
                    \/ n > 0 /\ kept[n] % 2 ^ b # 0]

\* the float nearest to limbs * 2^exp, plus a non-zero rest below the last bit
\* when sticky
RoundToFloat(limbs, sticky, exp) ==
    LET n == BigBits(limbs)
    IN  IF n <= Precision THEN [sig |-> limbs, exp |-> exp]
        ELSE LET g == n - Precision
                 guard == BigShift(limbs, g - 1)
                 kept == BigShift(guard.limbs, 1)
                 last == kept.limbs[Len(kept.limbs)]
                 up == kept.sticky /\ (sticky \/ guard.sticky \/ last % 2 = 1)
                 sig == IF up THEN BigTimes(kept.limbs, 1, 1) ELSE kept.limbs
             IN  IF BigBits(sig) > Precision
                     THEN [sig |-> BigShift(sig, 1).limbs, exp |-> exp + g + 1]
                 ELSE [sig |-> sig, exp |-> exp + g]

FloatOfInt(n) == RoundToFloat(<<n \div Limb, n % Limb>>, FALSE, 0)

\* long division: the next n limbs of rem / den, each found in two halves, and
\* what is left; den < 2^22
HalfLimb == 2 ^ (LimbBits \div 2)
RECURSIVE QuotientLimbs(_, _, _)
QuotientLimbs(rem, den, n) ==
    IF n = 0 THEN [limbs |-> <<>>, rem |-> rem]
    ELSE LET high == (rem * HalfLimb) \div den
             rem1 == (rem * HalfLimb) % den
             low == (rem1 * HalfLimb) \div den
             rem2 == (rem1 * HalfLimb) % den
             rest == QuotientLimbs(rem2, den, n - 1)
         IN  [limbs |-> <<high * HalfLimb + low>> \o rest.limbs, rem |-> rest.rem]

\* Python: a / b for integers 0 <= a <= b, 0 < b < 2^22
TrueDiv(a, b) ==
    IF a = 0 THEN FloatOfInt(0)
    ELSE LET k == CHOOSE j \in 0..22 : a * 2 ^ j >= b /\ (j = 0 \/ a * 2 ^ (j - 1) < b)
             q == QuotientLimbs(a * 2 ^ k - b, b, 3)
         IN  RoundToFloat(<<1>> \o q.limbs, q.rem # 0, 0 - k - 3 * LimbBits)

\* Python: x * n for a float x and a small integer n
FloatTimes(x, n) == RoundToFloat(BigTimes(x.sig, n, 0), FALSE, x.exp)

\* f"{x:.2f}" for a float 0 <= x <= 100: the hundredths printed, the nearest to
\* the exact value of x, a tie going to the even one
Format2f(x) ==
    LET scaled == BigTimes(x.sig, 100, 0)
    IN  IF x.exp >= 0 THEN BigValue(scaled) * 2 ^ x.exp
        ELSE LET twice == BigShift(scaled, 0 - x.exp - 1)
                 v == BigValue(twice.limbs)
                 whole == v \div 2
             IN  IF v % 2 = 1 /\ (twice.sticky \/ whole % 2 = 1) THEN whole + 1 ELSE whole

\* variant: the quotient is taken with floor division
percent_complete_FloorDiv(sum) ==
    IF sum["Total"] # 0 THEN FloatTimes(FloatOfInt(sum["Completed"] \div sum["Total"]), 100)
    ELSE FloatOfInt(0)

\* line 66: (summary['Completed'] / summary['Total']) * 100 if summary['Total'] else 0
percent_complete(sum) ==
    IF sum["Total"] # 0 THEN FloatTimes(TrueDiv(sum["Completed"], sum["Total"]), 100)
    ELSE FloatOfInt(0)

\* the summary and the percent as line 74 prints it, in hundredths of a percent
SummaryReport(sum) ==
    [summary |-> sum, percent_complete |-> Format2f(percent_complete(sum))]

\* lines 66-77: the loop is over, print the summary
ScanSummary ==
    /\ pc = "scan_collect"
    /\ AllCollected
    /\ report' = <<SummaryReport(summary)>>
    /\ pc' = "done"
    /\ UNCHANGED <<listing, objects, futures, collected, task, summary>>
    /\ UNCHANGED reqVars
    /\ UNCHANGED upVars

----------------------------------------------------------------------------
(* Restore Requester: glacier-restore.py *)

Tiers == {"Expedited", "Standard", "Bulk"}
Days == 2

\* the Requester reads StorageClass and Restore only
RequesterHeads ==
    {HeadRaises} \cup
    {HeadAnswer(c, r, 100) : c \in {NoValue, "STANDARD"} \cup ArchivalClasses, r \in RestoreFields}

\* str(e) of a botocore ClientError
ErrorText(code, message) ==
    <<"An", "error", "occurred", "(", code, ")", "when", "calling", "the",
      "RestoreObject", "operation:">> \o message

RestoreOK == [outcome |-> Returns, kind |-> NoValue, text |-> <<>>]
ClientError(code, message) ==
    [outcome |-> Raises, kind |-> "ClientError", text |-> ErrorText(code, message)]
\* an exception of botocore that is no ClientError
ConnectionError ==
    [outcome |-> Raises, kind |-> "EndpointConnectionError",
     text |-> <<"Could", "not", "connect", "to", "the", "endpoint", "URL">>]

ErrRate ==
    ClientError("GlacierExpeditedRetrievalNotAvailable",
                <<"The", "rate", "of", "expedited", "retrievals", "is", "exceeded">>)
ErrTierNotAllowed ==
    ClientError("InvalidArgument", <<"Expedited", "tier", "is", "not", "allowed">>)
ErrCannotExpedite ==
    ClientError("InvalidRequest", <<"This", "object", "cannot", "be", "expedited">>)
ErrInProgressText ==
    ClientError("Conflict", <<"Object", "restore", "is", "already", "in", "progress">>)
ErrInProgressCode ==
    ClientError("RestoreAlreadyInProgress", <<"Conflict">>)
ErrIneligible ==
    ClientError("InvalidObjectState", <<"Object", "restore", "is", "not", "allowed">>)
ErrAccessDenied ==
    ClientError("AccessDenied", <<"Access", "Denied">>)

\* what the first and the fallback s3.restore_object call can answer
FirstAnswers ==
    {RestoreOK, ErrRate, ErrTierNotAllowed, ErrCannotExpedite, ErrInProgressText,
     ErrInProgressCode, ErrIneligible, ErrAccessDenied, ConnectionError}
SecondAnswers == {RestoreOK, ErrAccessDenied, ConnectionError}

SigRate == <<"rate", "of", "expedited", "retrievals">>
SigNotAllowed == <<"is", "not", "allowed">>
SigCannot == <<"cannot", "be", "expedited">>
SigInProgress == <<"already", "in", "progress">>
SigInProgressCode == <<"RestoreAlreadyInProgress">>
SigIneligible == <<"Object", "restore", "is", "not", "allowed">>

HeadCall(key) == [op |-> "head_object", Key |-> key, Days |-> 0, Tier |-> NoValue]
RestoreCall(key, days, t) == [op |-> "restore_object", Key |-> key, Days |-> days, Tier |-> t]

Return(calls, result) == [calls |-> calls, raised |-> FALSE, result |-> result]
Propagate(calls) == [calls |-> calls, raised |-> TRUE, result |-> <<>>]

\* variant: the error code RestoreAlreadyInProgress is not looked for
HandleClientError_NoCodeBranch(key, days, t, error_str, second, calls) ==
    IF \/ Contains(SigRate, error_str)
       \/ Contains(SigNotAllowed, error_str)
       \/ Contains(SigCannot, error_str)
        THEN LET calls2 == Append(calls, RestoreCall(key, days, "Standard"))
             IN  IF second.outcome = Returns
                     THEN Return(calls2, <<key, "Requested", "Standard">>)
                 ELSE Return(calls2, <<key, "Failed", "Standard">>)
    ELSE IF Contains(SigInProgress, error_str)
        THEN Return(calls, <<key, "In Progress", t>>)
    ELSE IF Contains(SigIneligible, error_str)
        THEN Return(calls, <<key, "Not Eligible", NoValue>>)
    ELSE Return(calls, <<key, "Failed", t>>)

\* variant: the fallback is tried only when the Expedited tier was requested
HandleClientError_OnlyExpedited(key, days, t, error_str, second, calls) ==
    IF /\ t = "Expedited"
       /\ \/ Contains(SigRate, error_str)
          \/ Contains(SigNotAllowed, error_str)
          \/ Contains(SigCannot, error_str)
        THEN LET calls2 == Append(calls, RestoreCall(key, days, "Standard"))
             IN  IF second.outcome = Returns
                     THEN Return(calls2, <<key, "Requested", "Standard">>)
                 ELSE Return(calls2, <<key, "Failed", "Standard">>)
    ELSE IF Contains(SigInProgress, error_str)
        THEN Return(calls, <<key, "In Progress", t>>)
    ELSE IF Contains(SigInProgressCode, error_str)
        THEN Return(calls, <<key, "In Progress", t>>)
    ELSE IF Contains(SigIneligible, error_str)
        THEN Return(calls, <<key, "Not Eligible", NoValue>>)
    ELSE Return(calls, <<key, "Failed", t>>)

\* variant: the fallback call repeats the requested tier
HandleClientError_SameTier(key, days, t, error_str, second, calls) ==
    IF \/ Contains(SigRate, error_str)
       \/ Contains(SigNotAllowed, error_str)
       \/ Contains(SigCannot, error_str)
        THEN LET calls2 == Append(calls, RestoreCall(key, days, t))
             IN  IF second.outcome = Returns
                     THEN Return(calls2, <<key, "Requested", "Standard">>)
                 ELSE Return(calls2, <<key, "Failed", "Standard">>)
    ELSE IF Contains(SigInProgress, error_str)
        THEN Return(calls, <<key, "In Progress", t>>)
    ELSE IF Contains(SigInProgressCode, error_str)
        THEN Return(calls, <<key, "In Progress", t>>)
    ELSE IF Contains(SigIneligible, error_str)
        THEN Return(calls, <<key, "Not Eligible", NoValue>>)
    ELSE Return(calls, <<key, "Failed", t>>)

\* variant: the last branch returns no tier
HandleClientError_TierUnset(key, days, t, error_str, second, calls) ==
    IF \/ Contains(SigRate, error_str)
       \/ Contains(SigNotAllowed, error_str)
       \/ Contains(SigCannot, error_str)
        THEN LET calls2 == Append(calls, RestoreCall(key, days, "Standard"))
             IN  IF second.outcome = Returns
                     THEN Return(calls2, <<key, "Requested", "Standard">>)
                 ELSE Return(calls2, <<key, "Failed", "Standard">>)
    ELSE IF Contains(SigInProgress, error_str)
        THEN Return(calls, <<key, "In Progress", t>>)
    ELSE IF Contains(SigInProgressCode, error_str)
        THEN Return(calls, <<key, "In Progress", t>>)
    ELSE IF Contains(SigIneligible, error_str)
        THEN Return(calls, <<key, "Not Eligible", NoValue>>)
    ELSE Return(calls, <<key, "Failed", NoValue>>)

\* lines 51-81: the handler of a ClientError of the first restore call
HandleClientError(key, days, t, error_str, second, calls) ==
    IF \/ Contains(SigRate, error_str)
       \/ Contains(SigNotAllowed, error_str)
       \/ Contains(SigCannot, error_str)
        THEN LET calls2 == Append(calls, RestoreCall(key, days, "Standard"))
             IN  IF second.outcome = Returns
                     THEN Return(calls2, <<key, "Requested", "Standard">>)
                 ELSE Return(calls2, <<key, "Failed", "Standard">>)
    ELSE IF Contains(SigInProgress, error_str)
        THEN Return(calls, <<key, "In Progress", t>>)
    ELSE IF Contains(SigInProgressCode, error_str)
        THEN Return(calls, <<key, "In Progress", t>>)
    ELSE IF Contains(SigIneligible, error_str)
        THEN Return(calls, <<key, "Not Eligible", NoValue>>)
    ELSE Return(calls, <<key, "Failed", t>>)

\* lines 39-81: Step 2
TryRestore(key, days, t, first, second, calls) ==
    LET calls1 == Append(calls, RestoreCall(key, days, t))
    IN  IF first.outcome = Returns
            THEN Return(calls1, <<key, "Requested", t>>)
        ELSE IF first.kind = "ClientError"
            THEN HandleClientError(key, days, t, first.text, second, calls1)
        ELSE Propagate(calls1)

\* variant: a failed metadata fetch ends the task with status Error
check_and_restore_object_HeadError(key, days, t, head, first, second) ==
    LET calls == <<HeadCall(key)>>
    IN  IF head.outcome = Raises
            THEN Return(calls, <<key, "Error", NoValue>>)
        ELSE LET restore_field == head.Restore
                 storage_class == head.StorageClass
             IN  IF storage_class \notin ArchivalClasses
                     THEN Return(calls, <<key, "Not Eligible", NoValue>>)
                 ELSE IF Truthy(restore_field) /\ Contains(RestoreOngoing, restore_field.text)
                     THEN Return(calls, <<key, "In Progress", t>>)
                 ELSE IF Truthy(restore_field) /\ Contains(RestoreDone, restore_field.text)
                     THEN Return(calls, <<key, "Completed", t>>)
                 ELSE TryRestore(key, days, t, first, second, calls)

\* variant: the restore field is looked at before the storage class
check_and_restore_object_FieldFirst(key, days, t, head, first, second) ==
    LET calls == <<HeadCall(key)>>
    IN  IF head.outcome = Raises
            THEN TryRestore(key, days, t, first, second, calls)
        ELSE LET restore_field == head.Restore
                 storage_class == head.StorageClass
             IN  IF Truthy(restore_field) /\ Contains(RestoreOngoing, restore_field.text)
                     THEN Return(calls, <<key, "In Progress", t>>)
                 ELSE IF Truthy(restore_field) /\ Contains(RestoreDone, restore_field.text)
                     THEN Return(calls, <<key, "Completed", t>>)
                 ELSE IF storage_class \notin ArchivalClasses
                     THEN Return(calls, <<key, "Not Eligible", NoValue>>)
                 ELSE TryRestore(key, days, t, first, second, calls)

\* variant: a restore field that is not "ongoing" counts as a finished restore
check_and_restore_object_AnyFieldDone(key, days, t, head, first, second) ==
    LET calls == <<HeadCall(key)>>
    IN  IF head.outcome = Raises
            THEN TryRestore(key, days, t, first, second, calls)
        ELSE LET restore_field == head.Restore
                 storage_class == head.StorageClass
             IN  IF storage_class \notin ArchivalClasses
                     THEN Return(calls, <<key, "Not Eligible", NoValue>>)
                 ELSE IF Truthy(restore_field) /\ Contains(RestoreOngoing, restore_field.text)
                     THEN Return(calls, <<key, "In Progress", t>>)
                 ELSE IF Truthy(restore_field)
                     THEN Return(calls, <<key, "Completed", t>>)
                 ELSE TryRestore(key, days, t, first, second, calls)

\* variant: Step 1 looks at the storage class only
check_and_restore_object_Rerequest(key, days, t, head, first, second) ==
    LET calls == <<HeadCall(key)>>
    IN  IF head.outcome = Raises
            THEN TryRestore(key, days, t, first, second, calls)
        ELSE IF head.StorageClass \notin ArchivalClasses
            THEN Return(calls, <<key, "Not Eligible", NoValue>>)
        ELSE TryRestore(key, days, t, first, second, calls)

\* the S3 calls check_and_restore_object makes and what it returns, given the
\* answers of head_object, of the first restore_object and of the fallback one
check_and_restore_object(key, days, t, head, first, second) ==
    LET calls == <<HeadCall(key)>>
    IN  IF head.outcome = Raises
            THEN TryRestore(key, days, t, first, second, calls)
        ELSE LET restore_field == head.Restore
                 storage_class == head.StorageClass
             IN  IF storage_class \notin ArchivalClasses
                     THEN Return(calls, <<key, "Not Eligible", NoValue>>)
                 ELSE IF Truthy(restore_field) /\ Contains(RestoreOngoing, restore_field.text)
                     THEN Return(calls, <<key, "In Progress", t>>)
                 ELSE IF Truthy(restore_field) /\ Contains(RestoreDone, restore_field.text)
                     THEN Return(calls, <<key, "Completed", t>>)
                 ELSE TryRestore(key, days, t, first, second, calls)

\* variant: the filter of the Scanner, without the storage class test
RECURSIVE GlacierPage_AnyClass(_)
GlacierPage_AnyClass(contents) ==
    IF contents = <<>> THEN <<>>
    ELSE LET obj == Head(contents)
             key == obj.Key
             size == obj.Size
         IN  IF key = Prefix \/ size = 0 \/ obj.StorageClass = NoValue
                 THEN GlacierPage_AnyClass(Tail(contents))
             ELSE <<[key |-> key, size |-> size]>> \o GlacierPage_AnyClass(Tail(contents))

\* the listing loop of list_glacier_objects over one page
RECURSIVE GlacierPage(_)
GlacierPage(contents) ==
    IF contents = <<>> THEN <<>>
    ELSE LET obj == Head(contents)
             key == obj.Key
             size == obj.Size
         IN  IF key = Prefix \/ size = 0 \/ obj.StorageClass = NoValue
                 THEN GlacierPage(Tail(contents))
             ELSE IF obj.StorageClass \in ArchivalClasses
                 THEN <<[key |-> key, size |-> size]>> \o GlacierPage(Tail(contents))
             ELSE GlacierPage(Tail(contents))

RECURSIVE list_glacier_objects(_)
list_glacier_objects(pages) ==
    IF pages = <<>> THEN <<>>
    ELSE GlacierPage(Head(pages)) \o list_glacier_objects(Tail(pages))

\* a collections.Counter
Count(c, k) == IF k \in DOMAIN c THEN c[k] ELSE 0
Incr(c, k) == [x \in DOMAIN c \cup {k} |-> Count(c, x) + (IF x = k THEN 1 ELSE 0)]

\* variant: a tier is counted only for a restore that was requested
TallyTier_RequestedOnly(usage, result) ==
    LET tier_used == result[3]
    IN  IF tier_used # NoValue /\ result[2] = "Requested" THEN Incr(usage, tier_used)
        ELSE usage

\* lines 121-124: the body of the fan-in loop
TallyStatus(counts, result) == Incr(counts, result[2])
TallyTier(usage, result) ==
    LET tier_used == result[3]
    IN  IF tier_used # NoValue THEN Incr(usage, tier_used) ELSE usage

ReqPending == [done |-> FALSE, calls |-> <<>>, raised |-> FALSE, result |-> <<>>]

\* line 109: objects = list_glacier_objects(...)
ReqList ==
    /\ pc = "req_start"
    /\ \E l \in Listings : \E pages \in Paginations(l) :
          /\ listing' = Flatten(pages)
          /\ objects' = list_glacier_objects(pages)
    /\ pc' = "req_submit"
    /\ UNCHANGED <<futures, collected, report, task>>
    /\ UNCHANGED scanVars
    /\ UNCHANGED reqVars
    /\ UNCHANGED upVars

\* lines 110-119: the counters, and one future per object
ReqSubmit ==
    /\ pc = "req_submit"
    /\ futures' = [i \in 1..Len(objects) |-> ReqPending]
    /\ pc' = "req_collect"
    /\ UNCHANGED <<listing, objects, collected, report, task>>
    /\ UNCHANGED scanVars
    /\ UNCHANGED reqVars
    /\ UNCHANGED upVars

\* every way a call of check_and_restore_object can go for a key and a tier, over
\* all answers of the service
TaskRuns ==
    [key \in {KeyOf(j) : j \in 1..MaxObjects}, t \in Tiers |->
        {check_and_restore_object(key, Days, t, head, first, second) :
            head \in RequesterHeads, first \in FirstAnswers, second \in SecondAnswers}]

IsPrefix(p, q) == Len(p) <= Len(q) /\ SubSeq(q, 1, Len(p)) = p

\* the sequences of S3 calls a task can have issued while it runs
TaskPrefixes(key, t) ==
    UNION {{SubSeq(r.calls, 1, n) : n \in 0..Len(r.calls)} : r \in TaskRuns[key, t]}

\* what a task that has issued `calls` and gets its next answer can have issued
\* when it waits again: one more call, when some run of the task goes on
NextCalls ==
    [key \in {KeyOf(j) : j \in 1..MaxObjects}, t \in Tiers |->
        [calls \in TaskPrefixes(key, t) |->
            {SubSeq(r.calls, 1, Len(calls) + 1) :
                r \in {x \in TaskRuns[key, t] :
                          IsPrefix(calls, x.calls) /\ Len(calls) < Len(x.calls)}}]]

\* how a task that has issued `calls` can end when its last answer arrives
LastRuns ==
    [key \in {KeyOf(j) : j \in 1..MaxObjects}, t \in Tiers |->
        [calls \in TaskPrefixes(key, t) |-> {r \in TaskRuns[key, t] : r.calls = calls}]]

\* a pool worker in check_and_restore_object for object i: the task starts, or
\* the answer to its last S3 call arrives, and it runs up to its next S3 call
\* (lines 22, 41, 57), which it issues and waits for. The pool runs every
\* submitted task, also while the with block is left by an exception
ReqTaskCall(i) ==
    /\ pc \in {"req_collect", "req_unwind"}
    /\ i \in Submitted
    /\ ~futures[i].done
    /\ \E calls \in NextCalls[objects[i].key, tier][futures[i].calls] :
          futures' = [futures EXCEPT ![i].calls = calls]
    /\ UNCHANGED <<pc, listing, objects, collected, report, task>>
    /\ UNCHANGED scanVars
    /\ UNCHANGED reqVars
    /\ UNCHANGED upVars

\* the answer to the last S3 call of the task arrives and the task runs to its
\* end: it returns its result or lets the exception through
ReqTaskReturn(i) ==
    /\ pc \in {"req_collect", "req_unwind"}
    /\ i \in Submitted
    /\ ~futures[i].done
    /\ \E r \in LastRuns[objects[i].key, tier][futures[i].calls] :
          futures' = [futures EXCEPT ![i] =
              [done |-> TRUE, calls |-> r.calls, raised |-> r.raised, result |-> r.result]]
    /\ UNCHANGED <<pc, listing, objects, collected, report, task>>
    /\ UNCHANGED scanVars
    /\ UNCHANGED reqVars
    /\ UNCHANGED upVars

\* lines 120-125: one iteration of the as_completed loop; future.result()
\* re-raises what the task raised
ReqCollect(i) ==
    /\ pc = "req_collect"
    /\ i \in Submitted \ collected
    /\ futures[i].done
    /\ IF futures[i].raised
           THEN /\ pc' = "req_unwind"
                /\ UNCHANGED <<status_counts, tier_usage, collected>>
       ELSE /\ status_counts' = TallyStatus(status_counts, futures[i].result)
            /\ tier_usage' = TallyTier(tier_usage, futures[i].result)
            /\ collected' = collected \cup {i}
            /\ pc' = pc
    /\ UNCHANGED <<tier, listing, objects, futures, report, task>>
    /\ UNCHANGED scanVars
    /\ UNCHANGED upVars

\* the exception leaves the with block once the pool has shut down, and ends main
ReqCrash ==
    /\ pc = "req_unwind"
    /\ \A i \in Submitted : futures[i].done
    /\ pc' = "crashed"
    /\ UNCHANGED <<listing, objects, futures, collected, report, task>>
    /\ UNCHANGED scanVars
    /\ UNCHANGED reqVars
    /\ UNCHANGED upVars

ReportedStatuses == {"Completed", "In Progress", "Requested", "Not Eligible", "Failed"}

\* lines 127-136: the loop is over, print the summary
ReqSummary ==
    /\ pc = "req_collect"
    /\ AllCollected
    /\ report' = <<[Total |-> Len(objects),
                    TotalSize |-> SumSizes(objects),
                    counts |-> [s \in ReportedStatuses |-> Count(status_counts, s)],
                    tiers |-> tier_usage]>>
    /\ pc' = "done"
    /\ UNCHANGED <<listing, objects, futures, collected, task>>
    /\ UNCHANGED scanVars
    /\ UNCHANGED reqVars
    /\ UNCHANGED upVars

----------------------------------------------------------------------------
(* A Requester run over one object, keeping the answers the service gave *)

TaskKey == KeyOf(1)

\* the run of check_and_restore_object(s3, bucket, key, days, tier) under the
\* answers the service gives this task
TaskRun ==
    check_and_restore_object(task.key, Days, tier, task.head, task.first, task.second)

\* the worker starts the task, or the answer to its last S3 call arrives, and it
\* runs up to its next S3 call (lines 22, 41, 57), which it issues and waits for
CallTask ==
    /\ pc = "task_ready"
    /\ task.state \in {"ready", "running"}
    /\ Len(task.calls) < Len(TaskRun.calls)
    /\ task' = [task EXCEPT !.state = "running",
                            !.calls = SubSeq(TaskRun.calls, 1, Len(@) + 1)]
    /\ UNCHANGED pc
    /\ UNCHANGED reqVars
    /\ UNCHANGED poolVars
    /\ UNCHANGED scanVars
    /\ UNCHANGED upVars

\* the answer to the last S3 call arrives and the task runs to its end
ReturnTask ==
    /\ pc = "task_ready"
    /\ task.state = "running"
    /\ task.calls = TaskRun.calls
    /\ task' = [task EXCEPT !.state = IF TaskRun.raised THEN "raised" ELSE "returned",
                            !.result = TaskRun.result]
    /\ pc' = "task_finished"
    /\ UNCHANGED reqVars
    /\ UNCHANGED poolVars
    /\ UNCHANGED scanVars
    /\ UNCHANGED upVars

\* lines 120-125 for that one future: future.result() returns or re-raises
TaskCollect ==
    /\ pc = "task_finished"
    /\ IF task.state = "raised"
           THEN /\ pc' = "crashed"
                /\ UNCHANGED <<status_counts, tier_usage>>
       ELSE /\ status_counts' = TallyStatus(status_counts, task.result)
            /\ tier_usage' = TallyTier(tier_usage, task.result)
            /\ pc' = "done"
    /\ UNCHANGED <<tier, task>>
    /\ UNCHANGED poolVars
    /\ UNCHANGED scanVars
    /\ UNCHANGED upVars

----------------------------------------------------------------------------
(* Uploader: glacier-generate-dummy-files.py *)

BUCKET_NAME == "dump1425bucket"
PREFIX == "images/"
LOCAL_DIR == "./dummy_files"

RECURSIVE Digits(_)
Digits(n) == IF n < 10 THEN <<n>> ELSE Append(Digits(n \div 10), n % 10)

RECURSIVE ZeroPad(_, _)
ZeroPad(d, width) == IF Len(d) >= width THEN d ELSE ZeroPad(<<0>> \o d, width)

\* f'dummy_file_{i:04d}.txt'
DummyName(i) == <<"dummy_file_", ZeroPad(Digits(i), 4), ".txt">>
\* a file of another name that is already in LOCAL_DIR
StrayName(k) == <<"notes_", ZeroPad(Digits(k), 4), ".txt">>

\* os.path.join(LOCAL_DIR, f) and os.path.basename
PathJoin(dir, f) == <<dir, f>>
Basename(path) == path[2]

\* what LOCAL_DIR can hold before the run: nothing (or no directory), files of an
\* earlier run, files of other names
EarlierFiles ==
    SUBSET ({DummyName(i) : i \in 1..MaxFiles} \cup {StrayName(k) : k \in 1..MaxStray})

RECURSIVE Orders(_)
Orders(S) ==
    IF S = {} THEN {<<>>}
    ELSE UNION {{<<x>> \o o : o \in Orders(S \ {x})} : x \in S}

\* lines 16-24: os.makedirs(exist_ok=True) and the generation loop
UpGenerate ==
    /\ pc = "up_start"
    /\ local_dir' = [exists |-> TRUE,
                     files |-> local_dir.files \cup {DummyName(i) : i \in 1..num_files}]
    /\ pc' = "up_listdir"
    /\ UNCHANGED <<num_files, filepaths, uploads, store_calls>>
    /\ UNCHANGED <<task, summary>>
    /\ UNCHANGED poolVars
    /\ UNCHANGED reqVars

\* lines 50-53: the paths of os.listdir, in some order, each mapped to upload_file
UpSubmit ==
    /\ pc = "up_listdir"
    /\ \E o \in Orders(local_dir.files) :
          filepaths' = [i \in 1..Len(o) |-> PathJoin(LOCAL_DIR, o[i])]
    /\ uploads' = [i \in 1..Cardinality(local_dir.files) |-> "pending"]
    /\ pc' = "up_pool"
    /\ UNCHANGED <<num_files, local_dir, store_calls>>
    /\ UNCHANGED <<task, summary>>
    /\ UNCHANGED poolVars
    /\ UNCHANGED reqVars

\* lines 29-43: a pool worker takes filepaths[i] and calls s3.upload_file; the
\* worker runs whatever the main thread is doing
upload_file(i) ==
    /\ i \in DOMAIN uploads
    /\ uploads[i] = "pending"
    /\ LET filepath == filepaths[i]
           filename == Basename(filepath)
           s3_key == <<PREFIX, filename>>
       IN  store_calls' = store_calls (+) SetToBag(
               {[Filename |-> filepath, Bucket |-> BUCKET_NAME, Key |-> s3_key,
                 StorageClass |-> "GLACIER"]})
    /\ uploads' = [uploads EXCEPT ![i] = "running"]
    /\ UNCHANGED <<pc, num_files, local_dir, filepaths>>
    /\ UNCHANGED <<task, summary>>
    /\ UNCHANGED poolVars
    /\ UNCHANGED reqVars

\* lines 44-47: s3.upload_file returns ("Uploaded") or raises ("Failed"), and
\* upload_file returns either way
upload_file_return(i) ==
    /\ i \in DOMAIN uploads
    /\ uploads[i] = "running"
    /\ \E outcome \in {Returns, Raises} :
          uploads' = [uploads EXCEPT ![i] =
              IF outcome = Returns THEN "Uploaded" ELSE "Failed"]
    /\ UNCHANGED <<pc, num_files, local_dir, filepaths, store_calls>>
    /\ UNCHANGED <<task, summary>>
    /\ UNCHANGED poolVars
    /\ UNCHANGED reqVars

\* variant: the main thread goes on without waiting for the pool
UpJoin_NoWait ==
    /\ pc = "up_pool"
    /\ pc' = "up_cleanup"
    /\ UNCHANGED upVars
    /\ UNCHANGED <<task, summary>>
    /\ UNCHANGED poolVars
    /\ UNCHANGED reqVars

\* the with block ends when the pool has run every task
UpJoin ==
    /\ pc = "up_pool"
    /\ \A i \in DOMAIN uploads : uploads[i] \in {"Uploaded", "Failed"}
    /\ pc' = "up_cleanup"
    /\ UNCHANGED upVars
    /\ UNCHANGED <<task, summary>>
    /\ UNCHANGED poolVars
    /\ UNCHANGED reqVars

\* lines 58-60: shutil.rmtree(LOCAL_DIR)
UpCleanup ==
    /\ pc = "up_cleanup"
    /\ local_dir' = [exists |-> FALSE, files |-> {}]
    /\ pc' = "done"
    /\ UNCHANGED <<num_files, filepaths, uploads, store_calls>>
    /\ UNCHANGED <<task, summary>>
    /\ UNCHANGED poolVars
    /\ UNCHANGED reqVars

NoTask == [state |-> "none"]

InitCommon ==
    /\ listing = <<>>
    /\ objects = <<>>
    /\ futures = <<>>
    /\ collected = {}
    /\ summary = EmptySummary
    /\ status_counts = [s \in {} |-> 0]
    /\ tier_usage = [t \in {} |-> 0]
    /\ report = <<>>
    /\ task = NoTask
    /\ num_files = 0
    /\ local_dir = [exists |-> FALSE, files |-> {}]
    /\ filepaths = <<>>
    /\ uploads = <<>>
    /\ store_calls = EmptyBag

InitScanner ==
    /\ pc = "scan_start"
    /\ tier = NoValue
    /\ InitCommon

NextScanner ==
    \/ ScanList
    \/ ScanSubmit
    \/ \E i \in Submitted : ScanTask(i)
    \/ \E i \in Submitted : ScanCollect(i)
    \/ ScanSummary

SpecScanner == InitScanner /\ [][NextScanner]_vars

\* line 66 and line 74 on their own: a summary with any Total and Completed
InitPercent ==
    /\ pc = "percent_ready"
    /\ tier = NoValue
    /\ listing = <<>>
    /\ objects = <<>>
    /\ futures = <<>>
    /\ collected = {}
    /\ \E total \in 0..MaxTotal : \E completed \in 0..total :
          summary = [EmptySummary EXCEPT !["Total"] = total,
                                         !["Completed"] = completed,
                                         !["Not Started"] = total - completed]
    /\ status_counts = [s \in {} |-> 0]
    /\ tier_usage = [t \in {} |-> 0]
    /\ report = <<>>
    /\ task = NoTask
    /\ num_files = 0
    /\ local_dir = [exists |-> FALSE, files |-> {}]
    /\ filepaths = <<>>
    /\ uploads = <<>>
    /\ store_calls = EmptyBag

PrintPercent ==
    /\ pc = "percent_ready"
    /\ report' = <<SummaryReport(summary)>>
    /\ pc' = "done"
    /\ UNCHANGED <<listing, objects, futures, collected, task, summary>>
    /\ UNCHANGED reqVars
    /\ UNCHANGED upVars

\* a Status Scanner run, or the percent of a summary on its own
InitScannerOrPercent == InitScanner \/ InitPercent
NextScannerOrPercent == NextScanner \/ PrintPercent
SpecScannerOrPercent == InitScannerOrPercent /\ [][NextScannerOrPercent]_vars

InitRequester ==
    /\ pc = "req_start"
    /\ tier \in Tiers
    /\ InitCommon

NextRequester ==
    \/ ReqList
    \/ ReqSubmit
    \/ \E i \in Submitted : ReqTaskCall(i)
    \/ \E i \in Submitted : ReqTaskReturn(i)
    \/ \E i \in Submitted : ReqCollect(i)
    \/ ReqCrash
    \/ ReqSummary

SpecRequester == InitRequester /\ [][NextRequester]_vars

InitTask ==
    /\ pc = "task_ready"
    /\ tier \in Tiers
    /\ listing = <<>>
    /\ objects = <<>>
    /\ futures = <<>>
    /\ collected = {}
    /\ summary = EmptySummary
    /\ status_counts = [s \in {} |-> 0]
    /\ tier_usage = [t \in {} |-> 0]
    /\ report = <<>>
    /\ task \in [state : {"ready"}, key : {TaskKey}, head : RequesterHeads,
                 first : FirstAnswers, second : SecondAnswers, calls : {<<>>},
                 result : {<<>>}]
    /\ num_files = 0
    /\ local_dir = [exists |-> FALSE, files |-> {}]
    /\ filepaths = <<>>
    /\ uploads = <<>>
    /\ store_calls = EmptyBag

NextTask ==
    \/ CallTask
    \/ ReturnTask
    \/ TaskCollect

SpecTask == InitTask /\ [][NextTask]_vars

\* a Status Scanner run, or a Requester run over one object
InitScannerOrTask == InitScanner \/ InitTask
NextScannerOrTask == NextScanner \/ NextTask
SpecScannerOrTask == InitScannerOrTask /\ [][NextScannerOrTask]_vars

InitUploader ==
    /\ pc = "up_start"
    /\ tier = NoValue
    /\ listing = <<>>
    /\ objects = <<>>
    /\ futures = <<>>
    /\ collected = {}
    /\ summary = EmptySummary
    /\ status_counts = [s \in {} |-> 0]
    /\ tier_usage = [t \in {} |-> 0]
    /\ report = <<>>
    /\ task = NoTask
    /\ num_files \in 0..MaxFiles
    /\ \E before \in EarlierFiles :
          local_dir \in {[exists |-> e, files |-> before] : e \in {before # {}, TRUE}}
    /\ filepaths = <<>>
    /\ uploads = <<>>
    /\ store_calls = EmptyBag

NextUploader ==
    \/ UpGenerate
    \/ UpSubmit
    \/ \E i \in DOMAIN uploads : upload_file(i)
    \/ \E i \in DOMAIN uploads : upload_file_return(i)
    \/ UpJoin
    \/ UpCleanup

SpecUploader == InitUploader /\ [][NextUploader]_vars

----------------------------------------------------------------------------
(* Properties *)

RestoreCallsOf(calls) == SelectSeq(calls, LAMBDA c : c.op = "restore_object")
HeadCallsOf(calls) == SelectSeq(calls, LAMBDA c : c.op = "head_object")

ScannerBuckets == {"Completed", "In Progress", "Not Started", "Error"}
BucketSum ==
    summary["Completed"] + summary["In Progress"] + summary["Not Started"] + summary["Error"]

\* C1 (SpecScanner): when the fan-in loop of the Status Scanner has finished,
\* Total = Completed + In Progress + Not Started + Error, every bucket holds
\* exactly the futures that returned its status, and while the loop runs the
\* buckets add up to the number of results consumed so far: each submitted object
\* is counted once, in one bucket, whatever the fetches answered and in whatever
\* order the results arrived.
C1_ScannerTotalIsSumOfBuckets ==
    /\ pc = "scan_collect" => BucketSum = Cardinality(collected)
    /\ pc = "done" =>
          /\ summary["Total"] = BucketSum
          /\ summary["Total"] = Cardinality(Submitted)
          /\ \A b \in ScannerBuckets :
                summary[b] = Cardinality({i \in Submitted : futures[i].result[2] = b})

C1_Witness ==
    /\ pc = "done"
    /\ summary["Total"] = 2
    /\ summary["Error"] = 1
    /\ summary["Completed"] = 1
    /\ futures[1].result[2] = "Error"

RECURSIVE SumCounts(_, _)
SumCounts(c, keys) ==
    IF keys = {} THEN 0
    ELSE LET k == CHOOSE x \in keys : TRUE
         IN  Count(c, k) + SumCounts(c, keys \ {k})

\* C2 (SpecRequester): when a Restore Requester run ends, the number of objects
\* scanned equals Completed + In Progress + Requested + Not Eligible + Failed, and
\* every future was consumed once, whatever head_object and restore_object
\* answered or raised.
C2_ScannedIsSumOfStatuses ==
    pc \in {"done", "crashed"} =>
        /\ Len(objects) = SumCounts(status_counts, ReportedStatuses)
        /\ collected = Submitted

\* C3 (SpecRequester): no exception of a head_object or restore_object call for
\* one object aborts the batch: the fan-in loop is never left by an exception,
\* and a finished run has a result for every submitted object and has printed
\* its summary.
C3_NoFailureAbortsBatch ==
    /\ pc \notin {"req_unwind", "crashed"}
    /\ pc = "done" =>
          /\ report # <<>>
          /\ \A i \in Submitted : futures[i].done /\ ~futures[i].raised /\ i \in collected

TaskRan == task.state \in {"returned", "raised"}
FirstRestoreFailed ==
    /\ TaskRan
    /\ Len(RestoreCallsOf(task.calls)) >= 1
    /\ task.first.outcome = Raises

TierUnavailable(text) ==
    \/ Contains(<<"rate", "of", "expedited", "retrievals">>, text)
    \/ Contains(<<"is", "not", "allowed">>, text)
    \/ Contains(<<"cannot", "be", "expedited">>, text)
AlreadyUnderway(text) ==
    \/ Contains(<<"already", "in", "progress">>, text)
    \/ Contains(<<"RestoreAlreadyInProgress">>, text)
Ineligible(text) == Contains(<<"Object", "restore", "is", "not", "allowed">>, text)

\* C4 (SpecTask): when the first restore_object call fails with a message that
\* contains "rate of expedited retrievals", "is not allowed" or "cannot be
\* expedited", exactly one more restore_object call is made, with tier Standard,
\* and the object ends Requested/Standard if that call returns and
\* Failed/Standard if it raises; no object gets more than two restore_object
\* calls, a second one only after such a failure, and head_object is called once.
C4_SingleStandardFallback ==
    TaskRan =>
        LET rc == RestoreCallsOf(task.calls)
        IN  /\ Len(rc) <= 2
            /\ Len(HeadCallsOf(task.calls)) = 1
            /\ Len(rc) = 2 => task.first.outcome = Raises /\ TierUnavailable(task.first.text)
            /\ (FirstRestoreFailed /\ TierUnavailable(task.first.text)) =>
                  /\ rc = <<RestoreCall(task.key, Days, tier),
                            RestoreCall(task.key, Days, "Standard")>>
                  /\ task.state = "returned"
                  /\ task.result =
                        <<task.key,
                          IF task.second.outcome = Returns THEN "Requested" ELSE "Failed",
                          "Standard">>

C4_Witness ==
    /\ pc = "done"
    /\ tier = "Expedited"
    /\ task.first = ErrRate
    /\ Len(RestoreCallsOf(task.calls)) = 2
    /\ task.result = <<task.key, "Requested", "Standard">>

\* C5 (SpecTask): when a restore_object call fails with a message containing
\* "Object restore is not allowed", the object is classified Not Eligible with no
\* tier, and no further restore_object call is made for it.
C5_IneligibleIsNotEligible ==
    (FirstRestoreFailed /\ Ineligible(task.first.text)) =>
        /\ task.state = "returned"
        /\ task.result = <<task.key, "Not Eligible", NoValue>>
        /\ Len(RestoreCallsOf(task.calls)) = 1

UnclassifiedClientError ==
    /\ FirstRestoreFailed
    /\ task.first.kind = "ClientError"
    /\ ~TierUnavailable(task.first.text)
    /\ ~AlreadyUnderway(task.first.text)
    /\ ~Ineligible(task.first.text)

\* C6 as claimed (SpecTask): a restore_object failure that matches none of the
\* signatures classifies the object Failed with no tier recorded, so that it
\* adds nothing to the per-tier counts.
C6_FailedTierUnset ==
    UnclassifiedClientError =>
        /\ task.result = <<task.key, "Failed", NoValue>>
        /\ pc = "done" => DOMAIN tier_usage = {}

\* C6 as amended (SpecTask): a ClientError of the restore_object call that
\* matches none of the signatures classifies the object Failed with the
\* requested tier recorded, after one restore_object call; the fan-in loop then
\* adds one to Failed and one to the count of the requested tier.
C6_FailedKeepsRequestedTier ==
    UnclassifiedClientError =>
        /\ task.state = "returned"
        /\ task.result = <<task.key, "Failed", tier>>
        /\ Len(RestoreCallsOf(task.calls)) = 1
        /\ pc = "done" =>
              /\ Count(status_counts, "Failed") = 1
              /\ Count(tier_usage, tier) = 1

C6_Witness ==
    /\ pc = "done"
    /\ task.first = ErrAccessDenied
    /\ Len(RestoreCallsOf(task.calls)) = 1
    /\ task.result[2] = "Failed"

\* C7 (SpecTask): for an object whose metadata reports an archival storage class
\* and a restore field with ongoing-request="true" the result is In Progress,
\* with ongoing-request="false" it is Completed, and in both cases no
\* restore_object call is made for the object.
C7_NoRerequestWhenRestoring ==
    (/\ TaskRan
     /\ task.head.outcome = Returns
     /\ task.head.StorageClass \in {"GLACIER", "DEEP_ARCHIVE", "GLACIER_IR"}
     /\ task.head.Restore.present) =>
        /\ Contains(RestoreOngoing, task.head.Restore.text) =>
              /\ task.state = "returned"
              /\ task.result[2] = "In Progress"
              /\ RestoreCallsOf(task.calls) = <<>>
        /\ Contains(RestoreDone, task.head.Restore.text) =>
              /\ task.state = "returned"
              /\ task.result[2] = "Completed"
              /\ RestoreCallsOf(task.calls) = <<>>

C7_Witness ==
    /\ pc = "done"
    /\ task.head.StorageClass = "DEEP_ARCHIVE"
    /\ task.head.Restore.present
    /\ Contains(RestoreDone, task.head.Restore.text)
    /\ task.result[2] = "Completed"
    /\ task.calls = <<HeadCall(task.key)>>
    /\ Count(status_counts, "Completed") = 1

\* C8 (SpecScanner): the result of every finished future is a function of the
\* metadata its own fetch returned: a fetch that raises gives Error with 0 bytes,
\* a restore field containing ongoing-request="false" gives Completed, one
\* containing ongoing-request="true" gives In Progress, no restore field gives
\* Not Started; the key is the object's own.
C8_ScannerClassification ==
    \A i \in Submitted :
        futures[i].done =>
            LET h == futures[i].head
                r == futures[i].result
            IN  /\ r[1] = objects[i].key
                /\ h.outcome = Raises => r[2] = "Error" /\ r[3] = 0
                /\ (h.outcome = Returns /\ h.Restore.present
                      /\ Contains(RestoreDone, h.Restore.text)) => r[2] = "Completed"
                /\ (h.outcome = Returns /\ h.Restore.present
                      /\ Contains(RestoreOngoing, h.Restore.text)) => r[2] = "In Progress"
                /\ (h.outcome = Returns /\ ~h.Restore.present) => r[2] = "Not Started"

C8_Witness ==
    /\ Cardinality(Submitted) = 2
    /\ futures[1].done /\ futures[2].done
    /\ futures[1].head.outcome = Returns
    /\ Contains(RestoreOngoing, futures[1].head.Restore.text)
    /\ futures[1].result[2] = "In Progress"
    /\ futures[2].head.outcome = Returns
    /\ Contains(RestoreDone, futures[2].head.Restore.text)
    /\ futures[2].result[2] = "Completed"

GeneratedCalls ==
    {[Filename |-> PathJoin(LOCAL_DIR, DummyName(i)), Bucket |-> BUCKET_NAME,
      Key |-> <<PREFIX, DummyName(i)>>, StorageClass |-> "GLACIER"] : i \in 1..num_files}

\* C9 (SpecUploader): a finished Uploader run has issued exactly NUM_FILES store
\* calls, one per generated file, each with storage class GLACIER and key
\* prefix + filename, whichever of them failed, and has removed the local
\* directory.
C9_ExactlyNStoreCalls ==
    pc = "done" =>
        /\ BagCardinality(store_calls) = num_files
        /\ store_calls = SetToBag(GeneratedCalls)
        /\ ~local_dir.exists

Candidate(e) ==
    /\ e.Key # Prefix
    /\ e.Size # 0
    /\ e.StorageClass \in {"GLACIER", "DEEP_ARCHIVE", "GLACIER_IR"}

\* C10 (SpecRequester): a listed entry is submitted if and only if its key is not
\* the prefix, its size is not 0 and its listed storage class is GLACIER,
\* DEEP_ARCHIVE or GLACIER_IR, each such entry once; every S3 call of a task is
\* for the key of its own object, and no call is ever made for a key listed with
\* storage class STANDARD.
C10_CandidateSet ==
    pc # "req_start" =>
        /\ \A n \in 1..Len(listing) :
              Candidate(listing[n]) <=>
                  \E i \in 1..Len(objects) : objects[i].key = listing[n].Key
        /\ Len(objects) = Cardinality({n \in 1..Len(listing) : Candidate(listing[n])})
        /\ pc # "req_submit" => Submitted = 1..Len(objects)
        /\ \A i \in Submitted : \A k \in 1..Len(futures[i].calls) :
              /\ futures[i].calls[k].Key = objects[i].key
              /\ \A n \in 1..Len(listing) :
                    listing[n].StorageClass = "STANDARD" =>
                        futures[i].calls[k].Key # listing[n].Key

C10_Witness ==
    /\ pc = "done"
    /\ Len(listing) = 2
    /\ listing[1].StorageClass = "STANDARD" /\ listing[1].Size # 0 /\ listing[1].Key # Prefix
    /\ listing[2].StorageClass = "GLACIER_IR"
    /\ Len(objects) = 1
    /\ Len(RestoreCallsOf(futures[1].calls)) = 2

\* C12 (SpecScannerOrPercent): the percent the Status Scanner prints is 0 when
\* Total is 0 (nothing is divided), and otherwise Completed * 100 / Total to two
\* decimals: the printed hundredths are within half a hundredth of the quotient,
\* 33.33 for Completed = 1 of Total = 3; a quotient halfway between two
\* hundredths is printed as the float falls, 14.37 for 23 of 160.
C12_PercentComplete ==
    pc = "done" =>
        LET shown == report[1].percent_complete
            total == report[1].summary["Total"]
            completed == report[1].summary["Completed"]
            off == shown * total - completed * 10000
        IN  /\ total = 0 => shown = 0
            /\ total > 0 => 2 * off <= total /\ 2 * off >= 0 - total
            /\ (completed = 1 /\ total = 3) => shown = 3333
            /\ (completed = 23 /\ total = 160) => shown = 1437
            /\ shown >= 0 /\ shown <= 10000

C12_Witness ==
    /\ pc = "done"
    /\ report[1].summary["Total"] = 3
    /\ report[1].summary["Completed"] = 2
    /\ report[1].percent_complete = 6667

C12_WitnessEmpty ==
    /\ pc = "done"
    /\ report[1].summary["Total"] = 0
    /\ report[1].percent_complete = 0

RECURSIVE SumOver(_, _)
SumOver(f, S) ==
    IF S = {} THEN 0
    ELSE LET x == CHOOSE y \in S : TRUE
         IN  f[x] + SumOver(f, S \ {x})

\* C14 (SpecScanner): at every point of the fan-in loop, and at the end of the
\* run, RestoredSize is the sum of the byte sizes the metadata reported for the
\* consumed objects classified Completed; In Progress, Not Started and Error
\* results add nothing, in whatever order the results arrive.
C14_RestoredSize ==
    pc \in {"scan_collect", "done"} =>
        LET completed == {i \in collected : futures[i].result[2] = "Completed"}
            bytes == [i \in completed |-> futures[i].head.ContentLength]
        IN  /\ summary["RestoredSize"] = SumOver(bytes, completed)
            /\ pc = "done" => report[1].summary["RestoredSize"] = summary["RestoredSize"]

C14_Witness ==
    /\ pc = "done"
    /\ summary["Total"] = 3
    /\ summary["Completed"] = 1
    /\ summary["Not Started"] = 1
    /\ summary["Error"] = 1
    /\ summary["RestoredSize"] = 100
    /\ \E i, j \in Submitted :
          /\ futures[i].result = <<objects[i].key, "Completed", 100>>
          /\ futures[j].result = <<objects[j].key, "Not Started", 200>>

\* C11 (SpecRequester): every submitted object starts without a status and, when
\* the run has ended, has exactly one status out of Not Eligible, In Progress,
\* Completed, Requested, Failed.
C11_OneTerminalStatus ==
    pc \in {"done", "crashed"} =>
        \A i \in Submitted :
            /\ futures[i].done
            /\ ~futures[i].raised
            /\ futures[i].result # <<>>
            /\ futures[i].result[2] \in
                  {"Not Eligible", "In Progress", "Completed", "Requested", "Failed"}

\* C13 as claimed (SpecTask): when head_object raises, the object is classified
\* Error and nothing further is done for it.
C13_HeadFailureIsError ==
    (TaskRan /\ task.head.outcome = Raises) =>
        /\ task.state = "returned"
        /\ task.result[2] = "Error"
        /\ RestoreCallsOf(task.calls) = <<>>

\* C13 as amended (SpecTask): when head_object raises, the object is not
\* classified by that failure: the task issues restore_object with the requested
\* tier and days, and what becomes of the object is decided by that call alone.
\* If it returns, the object is Requested with the requested tier. If it raises
\* a ClientError with a tier-unavailability signature, one more call asks for
\* Standard and the object is Requested (the call returns) or Failed (it raises)
\* with tier Standard; with an already-underway signature and no such
\* signature, In Progress with the requested tier; with any other ClientError,
\* Failed with the requested tier. If it raises an exception that is no
\* ClientError, the task raises: the object gets no status, main ends at
\* future.result() and no summary is printed. The status is never Error or
\* Not Eligible.
C13_HeadFailureGoesOnToRestore ==
    (TaskRan /\ task.head.outcome = Raises) =>
        LET first == task.first
            isClientError == first.outcome = Raises /\ first.kind = "ClientError"
            first_call == RestoreCall(task.key, Days, tier)
        IN  /\ Len(task.calls) >= 2
            /\ task.calls[1] = HeadCall(task.key)
            /\ task.calls[2] = first_call
            /\ first.outcome = Returns =>
                  /\ task.state = "returned"
                  /\ task.calls = <<HeadCall(task.key), first_call>>
                  /\ task.result = <<task.key, "Requested", tier>>
            /\ (isClientError /\ TierUnavailable(first.text)) =>
                  /\ task.state = "returned"
                  /\ task.calls = <<HeadCall(task.key), first_call,
                                    RestoreCall(task.key, Days, "Standard")>>
                  /\ task.result =
                        <<task.key,
                          IF task.second.outcome = Returns THEN "Requested" ELSE "Failed",
                          "Standard">>
            /\ (isClientError /\ ~TierUnavailable(first.text) /\ AlreadyUnderway(first.text)) =>
                  /\ task.state = "returned"
                  /\ task.calls = <<HeadCall(task.key), first_call>>
                  /\ task.result = <<task.key, "In Progress", tier>>
            /\ (isClientError /\ ~TierUnavailable(first.text) /\ ~AlreadyUnderway(first.text)) =>
                  /\ task.state = "returned"
                  /\ task.calls = <<HeadCall(task.key), first_call>>
                  /\ task.result = <<task.key, "Failed", tier>>
            /\ (first.outcome = Raises /\ first.kind # "ClientError") =>
                  /\ task.state = "raised"
                  /\ task.calls = <<HeadCall(task.key), first_call>>
                  /\ task.result = <<>>
                  /\ pc \in {"task_finished", "crashed"}
                  /\ report = <<>>
                  /\ DOMAIN status_counts = {}
            /\ task.state = "returned" =>
                  /\ task.result[2] \in {"Requested", "In Progress", "Failed"}
                  /\ pc \in {"task_finished", "done"}
                  /\ pc = "done" => Count(status_counts, task.result[2]) = 1

C13_Witness ==
    /\ pc = "done"
    /\ task.head.outcome = Raises
    /\ task.first = RestoreOK
    /\ task.result = <<task.key, "Requested", "Bulk">>
    /\ Count(status_counts, "Requested") = 1

\* C15 (SpecTask): when head_object returns a storage class other than GLACIER,
\* DEEP_ARCHIVE and GLACIER_IR (or none), the object is Not Eligible with no
\* tier and no restore_object call is made, whatever the restore field holds.
C15_NonArchivalIsNotEligible ==
    (/\ TaskRan
     /\ task.head.outcome = Returns
     /\ task.head.StorageClass \notin {"GLACIER", "DEEP_ARCHIVE", "GLACIER_IR"}) =>
        /\ task.state = "returned"
        /\ task.result = <<task.key, "Not Eligible", NoValue>>
        /\ task.calls = <<HeadCall(task.key)>>
        /\ pc = "done" =>
              /\ Count(status_counts, "Not Eligible") = 1
              /\ DOMAIN tier_usage = {}

C15_Witness ==
    /\ pc = "done"
    /\ task.head.StorageClass = "STANDARD"
    /\ task.head.Restore.present
    /\ Contains(RestoreOngoing, task.head.Restore.text)
    /\ task.result = <<task.key, "Not Eligible", NoValue>>
    /\ task.calls = <<HeadCall(task.key)>>

\* C16 (SpecTask): when the first restore_object call fails with a message
\* containing "already in progress" or "RestoreAlreadyInProgress", the object is
\* In Progress and no fallback restore_object call is made.
C16_AlreadyUnderwayIsInProgress ==
    (FirstRestoreFailed /\ AlreadyUnderway(task.first.text)) =>
        /\ task.state = "returned"
        /\ task.result[2] = "In Progress"
        /\ RestoreCallsOf(task.calls) = <<RestoreCall(task.key, Days, tier)>>

C16_Witness ==
    /\ pc = "done"
    /\ task.first = ErrInProgressCode
    /\ ~Contains(<<"already", "in", "progress">>, task.first.text)
    /\ Len(RestoreCallsOf(task.calls)) = 1
    /\ task.result[2] = "In Progress"

RECURSIVE SumUsage(_)
SumUsage(c) ==
    IF DOMAIN c = {} THEN 0
    ELSE LET k == CHOOSE x \in DOMAIN c : TRUE
         IN  c[k] + SumUsage([x \in DOMAIN c \ {k} |-> c[x]])

\* C18 (SpecRequester): the per-tier counts add up to the results consumed that
\* are not Not Eligible; at the end of a run that completes they add up to the
\* objects scanned minus the Not Eligible ones: every In Progress, Completed,
\* Requested or Failed object adds one to a tier's count, also when no
\* restore_object call was made for it.
C18_TierTally ==
    /\ pc \in {"req_collect", "done"} =>
          SumUsage(tier_usage) =
              Cardinality({i \in collected : futures[i].result[2] # "Not Eligible"})
    /\ pc = "done" =>
          /\ SumUsage(tier_usage) = Len(objects) - Count(status_counts, "Not Eligible")
          /\ SumUsage(report[1].tiers) =
                report[1].Total - report[1].counts["Not Eligible"]

C18_Witness ==
    /\ pc = "done"
    /\ Len(objects) = 2
    /\ futures[1].result[2] = "Not Eligible"
    /\ futures[2].result[2] = "Completed"
    /\ futures[2].calls = <<HeadCall(objects[2].key)>>
    /\ SumUsage(tier_usage) = 1
    /\ Count(tier_usage, tier) = 1

\* C19 (SpecTask): for every requested tier, a ClientError of the first
\* restore_object call whose message contains "rate of expedited retrievals",
\* "is not allowed" or "cannot be expedited" is followed by a second
\* restore_object call with tier Standard; when the requested tier is Standard
\* the two calls are the same request.
C19_FallbackForEveryTier ==
    \A t \in {"Expedited", "Standard", "Bulk"} :
        (/\ tier = t
         /\ FirstRestoreFailed
         /\ task.first.kind = "ClientError"
         /\ TierUnavailable(task.first.text)) =>
            LET rc == RestoreCallsOf(task.calls)
            IN  /\ Len(rc) = 2
                /\ rc[1].Tier = t
                /\ rc[2].Tier = "Standard"
                /\ rc[2].Key = rc[1].Key /\ rc[2].Days = rc[1].Days
                /\ t = "Standard" => rc[2] = rc[1]

C19_Witness ==
    /\ pc = "done"
    /\ tier = "Standard"
    /\ task.first = ErrCannotExpedite
    /\ Len(RestoreCallsOf(task.calls)) = 2
    /\ RestoreCallsOf(task.calls)[1] = RestoreCallsOf(task.calls)[2]
    /\ RestoreCallsOf(task.calls)[2].Tier = "Standard"

Unrecognised(restore) ==
    /\ ~Contains(<<"ongoing-request=\"true\"">>, restore.text)
    /\ ~Contains(<<"ongoing-request=\"false\"">>, restore.text)

\* C20 (SpecScannerOrTask): a restore field that is missing, empty or holds neither
\* ongoing-request="true" nor ongoing-request="false" makes the Status Scanner
\* answer Not Started, and makes the Restore Requester, for an archival storage
\* class, go on to a restore_object call with the requested tier.
C20_UnrecognisedRestoreField ==
    /\ \A i \in Submitted :
          (/\ pc \in {"scan_collect", "done"}
           /\ futures[i].done
           /\ futures[i].head.outcome = Returns
           /\ Unrecognised(futures[i].head.Restore)) =>
              futures[i].result[2] = "Not Started"
    /\ (/\ pc \in {"task_finished", "done", "crashed"}
        /\ task.state \in {"returned", "raised"}
        /\ task.head.outcome = Returns
        /\ task.head.StorageClass \in {"GLACIER", "DEEP_ARCHIVE", "GLACIER_IR"}
        /\ Unrecognised(task.head.Restore)) =>
           /\ Len(task.calls) >= 2
           /\ task.calls[2] = RestoreCall(task.key, Days, tier)
           /\ task.first.outcome = Returns => task.result = <<task.key, "Requested", tier>>

C20_Witness ==
    /\ pc = "done"
    /\ task.state = "returned"
    /\ task.head.StorageClass = "GLACIER"
    /\ task.head.Restore = Str(<<>>)
    /\ task.calls = <<HeadCall(task.key), RestoreCall(task.key, Days, tier)>>
    /\ task.result = <<task.key, "Requested", tier>>

Unfinished == {i \in DOMAIN uploads : uploads[i] \in {"pending", "running"}}

\* C17 (SpecUploader): while an upload has not started or is still running the
\* local directory exists and the main thread is inside the with block; the
\* directory is removed only when every upload has ended Uploaded or Failed;
\* the run can always go on until the directory is removed, however many
\* uploads failed; store calls are issued for all the paths before the removal.
C17_CleanupAfterAllUploads ==
    /\ Unfinished # {} => local_dir.exists /\ pc = "up_pool"
    /\ pc \in {"up_cleanup", "done"} =>
          /\ \A i \in DOMAIN uploads : uploads[i] \in {"Uploaded", "Failed"}
          /\ BagCardinality(store_calls) = Len(filepaths)
    /\ pc = "up_cleanup" => local_dir.exists
    /\ pc = "done" => ~local_dir.exists
    /\ pc # "done" => ENABLED NextUploader

C17_Witness ==
    /\ pc = "done"
    /\ ~local_dir.exists
    /\ Len(uploads) >= 2
    /\ \E i, j \in DOMAIN uploads : uploads[i] = "Failed" /\ uploads[j] = "Uploaded"
    /\ BagCardinality(store_calls) = Len(uploads)

====
